---- MODULE Spec2Model ----
\* Type-mismatch detection of the data-cleaning tutorial
\* (src/data-cleaning/pyrasgo-data-type-mismatch.ipynb): a column of
\* heterogeneous values is cast to a target type; values of the wrong type
\* come back as NaN and a summary line is printed.
EXTENDS Integers, Sequences, FiniteSets, TLC

\* ---------------------------------------------------------------- bounds
MaxLen == 3

\* ---------------------------------------------------------------- values
\* A cell value is a tagged record.  n carries the number (ints as
\* themselves, floats in tenths, booleans as 0/1, timestamps as yyyymmdd),
\* s carries the characters of a string.
Val(t, n, s) == [tag |-> t, n |-> n, s |-> s]
IntV(n) == Val("int", n, <<>>)
FloatV(tenths) == Val("float", tenths, <<>>)
StrV(s) == Val("str", 0, s)
BoolV(b) == Val("bool", IF b THEN 1 ELSE 0, <<>>)
TsV(ymd) == Val("ts", ymd, <<>>)
\* pandas' absent value: NaN in a float column, NaT in a datetime column
NaN == Val("nan", 0, <<>>)

isnull(v) == v.tag = "nan"

\* the string literals of the tutorial, as character sequences
s_1 == <<"1">>
s_neg2 == <<"-", "2">>
s_2p2 == <<"2", ".", "2">>
s_AplusB == <<"A", "+", "B">>
s_text == <<"t", "e", "x", "t">>
s_False == <<"F", "a", "l", "s", "e">>
s_True == <<"T", "r", "u", "e">>
s_midnight == <<" ", "0", "0", ":", "0", "0", ":", "0", "0">>
s_date == <<"2", "0", "2", "0", "-", "0", "1", "-", "0", "1">>

\* ---------------------------------------------------------------- parsing
Digits == {"0", "1", "2", "3", "4", "5", "6", "7", "8", "9"}
DigitVal == ("0" :> 0) @@ ("1" :> 1) @@ ("2" :> 2) @@ ("3" :> 3) @@ ("4" :> 4)
            @@ ("5" :> 5) @@ ("6" :> 6) @@ ("7" :> 7) @@ ("8" :> 8) @@ ("9" :> 9)

AllDigits(s) == \A i \in 1..Len(s) : s[i] \in Digits

RECURSIVE DigitsVal(_)
DigitsVal(s) == IF s = <<>> THEN 0
                ELSE DigitsVal(SubSeq(s, 1, Len(s) - 1)) * 10 + DigitVal[s[Len(s)]]

\* position of the first "." of s, or 0
PointAt(s) == IF \E i \in 1..Len(s) : s[i] = "."
              THEN CHOOSE i \in 1..Len(s) : s[i] = "." /\ \A j \in 1..(i - 1) : s[j] # "."
              ELSE 0

HasSign(s) == Len(s) > 0 /\ s[1] \in {"+", "-"}
Unsigned(s) == IF HasSign(s) THEN Tail(s) ELSE s
IntPart(s) == IF PointAt(s) = 0 THEN s ELSE SubSeq(s, 1, PointAt(s) - 1)
FracPart(s) == IF PointAt(s) = 0 THEN <<>> ELSE SubSeq(s, PointAt(s) + 1, Len(s))

\* (variant) digits only, as str.isdigit would decide
IsNumberLiteralDigitsOnly(s) == Len(Unsigned(s)) > 0 /\ AllDigits(Unsigned(s))

\* base-10 literal: optional sign, digits, optional decimal point, digits
IsNumberLiteral(s) ==
    LET u == Unsigned(s) IN
    /\ AllDigits(IntPart(u))
    /\ AllDigits(FracPart(u))
    /\ Len(IntPart(u)) + Len(FracPart(u)) > 0

\* the value of a literal, in tenths
NumberLiteralTenths(s) ==
    LET u == Unsigned(s)
        f == FracPart(u)
        mag == DigitsVal(IntPart(u)) * 10 + (IF f = <<>> THEN 0 ELSE DigitVal[f[1]])
    IN IF HasSign(s) /\ s[1] = "-" THEN 0 - mag ELSE mag

DaysIn(y, m) == IF m \in {4, 6, 9, 11} THEN 30
                ELSE IF m # 2 THEN 31
                ELSE IF (y % 4 = 0 /\ y % 100 # 0) \/ y % 400 = 0 THEN 29 ELSE 28

\* ISO-like date yyyy-mm-dd naming a calendar day
IsDateLiteral(s) ==
    /\ Len(s) = 10
    /\ s[5] = "-" /\ s[8] = "-"
    /\ AllDigits(SubSeq(s, 1, 4)) /\ AllDigits(SubSeq(s, 6, 7)) /\ AllDigits(SubSeq(s, 9, 10))
    /\ LET y == DigitsVal(SubSeq(s, 1, 4))
           m == DigitsVal(SubSeq(s, 6, 7))
           d == DigitsVal(SubSeq(s, 9, 10))
       IN m \in 1..12 /\ d >= 1 /\ d <= DaysIn(y, m)

DateLiteralYmd(s) ==
    DigitsVal(SubSeq(s, 1, 4)) * 10000 + DigitsVal(SubSeq(s, 6, 7)) * 100
        + DigitsVal(SubSeq(s, 9, 10))

Lower == ("T" :> "t") @@ ("R" :> "r") @@ ("U" :> "u") @@ ("E" :> "e") @@ ("F" :> "f")
         @@ ("A" :> "a") @@ ("L" :> "l") @@ ("S" :> "s") @@ ("B" :> "b") @@ ("X" :> "x")
lower(s) == [i \in 1..Len(s) |-> IF s[i] \in DOMAIN Lower THEN Lower[s[i]] ELSE s[i]]

\* (variant) the literals compared without folding the case
IsBoolLiteralCaseSensitive(s) == s \in {<<"t", "r", "u", "e">>, <<"f", "a", "l", "s", "e">>}

IsBoolLiteral(s) == lower(s) \in {<<"t", "r", "u", "e">>, <<"f", "a", "l", "s", "e">>}
BoolLiteralVal(s) == lower(s) = <<"t", "r", "u", "e">>

\* ---------------------------------------------------------------- formatting
DigitChar == <<"0", "1", "2", "3", "4", "5", "6", "7", "8", "9">>

RECURSIVE NatStr(_)
NatStr(n) == IF n < 10 THEN <<DigitChar[n + 1]>>
             ELSE NatStr(n \div 10) \o <<DigitChar[(n % 10) + 1]>>

Abs(n) == IF n < 0 THEN 0 - n ELSE n
SignStr(n) == IF n < 0 THEN <<"-">> ELSE <<>>
Pad2(n) == IF n < 10 THEN <<"0">> \o NatStr(n) ELSE NatStr(n)

\* str(v) of a cell value
str(v) ==
    CASE v.tag = "str" -> v.s
      [] v.tag = "int" -> SignStr(v.n) \o NatStr(Abs(v.n))
      [] v.tag = "float" -> SignStr(v.n) \o NatStr(Abs(v.n) \div 10) \o <<".">>
                                \o NatStr(Abs(v.n) % 10)
      [] v.tag = "bool" -> IF v.n = 1 THEN s_True ELSE s_False
      [] v.tag = "ts" -> NatStr(v.n \div 10000) \o <<"-">> \o Pad2((v.n \div 100) % 100)
                             \o <<"-">> \o Pad2(v.n % 100) \o s_midnight
      [] OTHER -> <<"n", "a", "n">>

\* ---------------------------------------------------------------- coercion rules
TargetType == {"numeric", "datetime", "boolean", "text", "integer"}

\* (variant) no check of the requested type
RecognisedAny(t) == TRUE

Recognised(t) == t \in TargetType

\* (variant) only strings are parsed, native numbers are forgotten
CanNumericParseOnly(v) == v.tag = "str" /\ IsNumberLiteral(v.s)

\* (variant) booleans are not taken for numbers
CanNumericNoBool(v) == \/ v.tag \in {"int", "float"}
                       \/ v.tag = "str" /\ IsNumberLiteral(v.s)

\* numeric: numbers, booleans (true -> 1, false -> 0) and number literals
CanNumeric(v) == \/ v.tag \in {"int", "float", "bool"}
                 \/ v.tag = "str" /\ IsNumberLiteral(v.s)
to_numeric(v) ==
    CASE v.tag = "int" -> FloatV(v.n * 10)
      [] v.tag = "float" -> v
      [] v.tag = "bool" -> FloatV(v.n * 10)
      [] OTHER -> FloatV(NumberLiteralTenths(v.s))

\* (variant) only native timestamps are dates
CanDatetimeNativeOnly(v) == v.tag = "ts"

\* datetime: timestamps and date literals; a bare number is no date
CanDatetime(v) == \/ v.tag = "ts"
                  \/ v.tag = "str" /\ IsDateLiteral(v.s)
to_datetime(v) == IF v.tag = "ts" THEN v ELSE TsV(DateLiteralYmd(v.s))

\* boolean: native booleans and the literals true / false in any case
CanBoolean(v) == \/ v.tag = "bool"
                 \/ v.tag = "str" /\ IsBoolLiteral(v.s)
to_boolean(v) == IF v.tag = "bool" THEN v ELSE BoolV(BoolLiteralVal(v.s))

\* text: the string representation, always
to_text(v) == StrV(str(v))

\* integer: the numeric rule, for whole numbers only
CanInteger(v) == CanNumeric(v) /\ to_numeric(v).n % 10 = 0
to_integer(v) == IntV(to_numeric(v).n \div 10)

\* (variant) text takes strings only
CanConvertTextNative(v, t) ==
    CASE t = "numeric" -> CanNumeric(v)
      [] t = "datetime" -> CanDatetime(v)
      [] t = "boolean" -> CanBoolean(v)
      [] t = "integer" -> CanInteger(v)
      [] OTHER -> v.tag = "str"

CanConvert(v, t) ==
    CASE t = "numeric" -> CanNumeric(v)
      [] t = "datetime" -> CanDatetime(v)
      [] t = "boolean" -> CanBoolean(v)
      [] t = "integer" -> CanInteger(v)
      [] OTHER -> TRUE

Converted(v, t) ==
    CASE t = "numeric" -> to_numeric(v)
      [] t = "datetime" -> to_datetime(v)
      [] t = "boolean" -> to_boolean(v)
      [] t = "integer" -> to_integer(v)
      [] OTHER -> to_text(v)

\* (variant) errors='ignore': a value of the wrong type is handed back as it is
coerce_value_ignore(v, t) ==
    IF isnull(v) THEN NaN
    ELSE IF CanConvert(v, t) THEN Converted(v, t)
    ELSE v

\* one row: an absent value stays absent, a value of the wrong type
\* becomes NaN
coerce_value(v, t) ==
    IF isnull(v) THEN NaN
    ELSE IF CanConvert(v, t) THEN Converted(v, t)
    ELSE NaN

\* (variant) the rows that did not convert are dropped
RECURSIVE coerce_column_dropna(_, _)
coerce_column_dropna(col, t) ==
    IF col = <<>> THEN <<>>
    ELSE (IF isnull(coerce_value(Head(col), t)) THEN <<>>
          ELSE <<coerce_value(Head(col), t)>>)
         \o coerce_column_dropna(Tail(col), t)

\* (variant) the type is inferred for the column as a whole: a column of
\* integers only is read as offsets from the epoch under datetime
coerce_column_infer(col, t) ==
    IF t = "datetime" /\ col # <<>> /\ \A i \in 1..Len(col) : col[i].tag = "int"
    THEN [i \in 1..Len(col) |-> TsV(19700101)]
    ELSE [i \in 1..Len(col) |-> coerce_value(col[i], t)]

\* the recast column, row by row in row order
RECURSIVE coerce_column(_, _)
coerce_column(col, t) ==
    IF col = <<>> THEN <<>>
    ELSE <<coerce_value(Head(col), t)>> \o coerce_column(Tail(col), t)

\* rows that held a value and could not be converted
RECURSIVE cant_convert(_, _)
cant_convert(col, t) ==
    IF col = <<>> THEN 0
    ELSE (IF ~isnull(Head(col)) /\ ~CanConvert(Head(col), t) THEN 1 ELSE 0)
         + cant_convert(Tail(col), t)

\* (variant) 0 / 0 left to the arithmetic: not a number
PercentageNotANumber == 0 - 2

\* the figure in front of "%" on the summary line, in hundredths
\* ("0.95%: 1 rows of 20 rows cannot convert." is 95)
PercentageUndefined == 0 - 1
percentage(cant, total) ==
    IF total = 0 THEN PercentageUndefined
    ELSE (2 * (total - cant) * 100 + total) \div (2 * total)

summary_line(col, t) ==
    [percentage |-> percentage(cant_convert(col, t), Len(col)),
     cant_convert |-> cant_convert(col, t),
     total |-> Len(col)]

\* (variant) the cast is written back into the caller's table
source_after_call_inplace(col, res) == res

\* the caller's table after the call
source_after_call(col, res) == col

\* ---------------------------------------------------------------- the tutorial's table
Rows == 20
iloc_set(col, r, v) == [col EXCEPT ![r + 1] = v]

df_created ==
    [A |-> [i \in 1..Rows |-> StrV(s_text)],
     B |-> [i \in 1..Rows |-> IF i % 2 = 1 THEN FloatV(10) ELSE FloatV(22)],
     C |-> [i \in 1..Rows |-> BoolV(i % 2 = 1)],
     D |-> [i \in 1..Rows |-> TsV(20200101)]]

df ==
    [A |-> iloc_set(iloc_set(iloc_set(df_created.A, 0, IntV(1)), 1, IntV(0 - 2)),
                    10, TsV(20210101)),
     B |-> iloc_set(iloc_set(df_created.B, 5, StrV(s_2p2)), 7, StrV(s_AplusB)),
     C |-> iloc_set(iloc_set(iloc_set(iloc_set(df_created.C, 4, IntV(1)), 5, StrV(s_False)),
                             9, FloatV(0 - 126)), 12, StrV(s_text)),
     D |-> iloc_set(iloc_set(df_created.D, 2, IntV(12)), 12, StrV(s_date))]

\* ---------------------------------------------------------------- state machine
Values == {NaN, IntV(12), FloatV(22), StrV(s_1), StrV(s_neg2), StrV(s_2p2),
           StrV(s_AplusB), StrV(s_text),
           StrV(s_False), StrV(s_date), BoolV(TRUE), TsV(20200101)}

Columns == UNION {[1..n -> Values] : n \in 0..MaxLen}

\* the columns of the tutorial's table, as created and with the mistyped
\* values written in
TutorialColumns == {df_created.A, df_created.B, df_created.C, df_created.D,
                    df.A, df.B, df.C, df.D}

DataTypes == TargetType \cup {"currency"}

VARIABLES column, data_type, pc, error, new_column_df, stdout, shown
\* the same check done range by range
VARIABLES ranges, merged
\* the feature-selection tutorial: the flights table and the selection
VARIABLES cell, flights, failure, importance_df, feature_list, X_train_loo_new, reduced_model

varsCheck == <<column, data_type, pc, error, new_column_df, stdout, shown>>
varsRanges == <<ranges, merged>>
varsFlights == <<cell, flights, failure>>
varsSelect == <<importance_df, feature_list, X_train_loo_new, reduced_model>>
vars == <<varsCheck, varsRanges, varsFlights, varsSelect>>

\* the parts of the state a tutorial does not use stay as they start
NoRanges == ranges = <<>> /\ merged = <<>>
NoFlights == cell = 0 /\ flights = <<>> /\ failure = "none"
NoSelection ==
    /\ importance_df = <<>> /\ feature_list = <<>>
    /\ X_train_loo_new = <<>> /\ reduced_model = <<>>

Init ==
    /\ column \in Columns \cup TutorialColumns
    /\ data_type \in DataTypes
    /\ pc = "ready"
    /\ error = "none"
    /\ new_column_df = <<>>
    /\ stdout = <<>>
    /\ shown = <<>>
    /\ NoRanges /\ NoFlights /\ NoSelection

\* new_column_df = rasgo.evaluate.type_mismatches(df, column=..., data_type=...)
type_mismatches ==
    /\ pc = "ready"
    /\ IF Recognised(data_type)
       THEN /\ new_column_df' = coerce_column(column, data_type)
            /\ stdout' = Append(stdout, summary_line(column, data_type))
            /\ column' = source_after_call(column, coerce_column(column, data_type))
            /\ pc' = "returned"
            /\ error' = error
       ELSE /\ error' = "UnsupportedTypeError"
            /\ pc' = "raised"
            /\ column' = source_after_call(column, column)
            /\ UNCHANGED <<new_column_df, stdout>>
    /\ UNCHANGED <<data_type, shown>>
    /\ UNCHANGED <<varsRanges, varsFlights, varsSelect>>

\* df[new_column_df.isnull().iloc[:,0]]: the source rows, with their
\* positions, where the recast column is absent
RECURSIVE mask_rows(_, _, _)
mask_rows(col, res, i) ==
    IF i > Len(col) THEN <<>>
    ELSE (IF isnull(res[i]) THEN <<[index |-> i - 1, value |-> col[i]]>> ELSE <<>>)
         \o mask_rows(col, res, i + 1)

show_mismatches ==
    /\ pc = "returned"
    /\ shown' = mask_rows(column, new_column_df, 1)
    /\ pc' = "shown"
    /\ UNCHANGED <<column, data_type, error, new_column_df, stdout>>
    /\ UNCHANGED <<varsRanges, varsFlights, varsSelect>>

Next == type_mismatches \/ show_mismatches

Spec == Init /\ [][Next]_vars

TypeOK ==
    /\ pc \in {"ready", "returned", "raised", "shown"}
    /\ error \in {"none", "UnsupportedTypeError"}
    /\ data_type \in DataTypes
    /\ Len(stdout) <= 1

\* ---------------------------------------------------------------- the check, range by range
\* The rows are split into three contiguous ranges (empty ranges allowed),
\* each range is checked on its own, in any order and interleaved with the
\* check of the whole column, and the results are concatenated in row order.
RangeValues == {NaN, IntV(12), StrV(s_AplusB), StrV(s_date), TsV(20200101)}
RangeColumns == UNION {[1..n -> RangeValues] : n \in 0..MaxLen} \cup {df.B, df.D}

Cuts(n) == {cut \in (0..n) \X (0..n) : cut[1] <= cut[2]}
range_of(n, cut, k) ==
    CASE k = 1 -> [lo |-> 1, hi |-> cut[1]]
      [] k = 2 -> [lo |-> cut[1] + 1, hi |-> cut[2]]
      [] OTHER -> [lo |-> cut[2] + 1, hi |-> n]

InitRanges ==
    /\ column \in RangeColumns
    /\ data_type \in TargetType
    /\ pc = "ready"
    /\ error = "none"
    /\ new_column_df = <<>>
    /\ stdout = <<>>
    /\ shown = <<>>
    /\ \E cut \in Cuts(Len(column)) :
          ranges = [k \in 1..3 |->
                      [lo |-> range_of(Len(column), cut, k).lo,
                       hi |-> range_of(Len(column), cut, k).hi,
                       done |-> FALSE, result |-> <<>>, cant_convert |-> 0]]
    /\ merged = <<>>
    /\ NoFlights /\ NoSelection

\* one worker checks the rows lo..hi
check_range(k) ==
    /\ ~ranges[k].done
    /\ LET rows == SubSeq(column, ranges[k].lo, ranges[k].hi) IN
       ranges' = [ranges EXCEPT ![k] = [@ EXCEPT !.done = TRUE,
                                                 !.result = coerce_column(rows, data_type),
                                                 !.cant_convert = cant_convert(rows, data_type)]]
    /\ UNCHANGED <<merged, varsCheck, varsFlights, varsSelect>>

\* the results of the ranges, put together in row order
concatenate ==
    /\ \A k \in 1..3 : ranges[k].done
    /\ merged = <<>>
    /\ merged' = <<[result |-> ranges[1].result \o ranges[2].result \o ranges[3].result,
                    cant_convert |-> ranges[1].cant_convert + ranges[2].cant_convert
                                        + ranges[3].cant_convert]>>
    /\ UNCHANGED <<ranges, varsCheck, varsFlights, varsSelect>>

NextRanges == type_mismatches \/ (\E k \in 1..3 : check_range(k)) \/ concatenate

SpecRanges == InitRanges /\ [][NextRanges]_vars

\* ---------------------------------------------------------------- the flights table
\* sklearn-feature-selection-shap.ipynb, cells 2 to 4: the table is read,
\* rows with a missing value are dropped, and the HHMM clock times are
\* split into hours and minutes.  cell is the last cell that was run.
ClockMax == 2400
MaxFlights == 2

flight(a, s, d) == [arr_time |-> a, sched_arr_time |-> IntV(s), sched_dep_time |-> IntV(d),
                    derived |-> <<>>]

\* arr_time is a float column with missing values, the scheduled times
\* are integer columns
FlightRows == UNION {{flight(NaN, x, ClockMax - x), flight(FloatV(x * 10), x, ClockMax - x)} :
                        x \in 0..ClockMax}
SampleRows == {flight(a, x, 559) : x \in {0, 2359}, a \in {NaN, FloatV(12590)}}
FlightTables == {<<r>> : r \in FlightRows}
                    \cup UNION {[1..n -> SampleRows] : n \in 0..MaxFlights}

\* a number of the table as an integer (the clock times are whole)
number(v) == IF v.tag = "float" THEN v.n \div 10 ELSE v.n

\* lambda x: int(np.floor(x/100))
hour(v) == number(v) \div 100
\* lambda x: int(x - np.floor(x/100)*100)
minute(v) == number(v) - (number(v) \div 100) * 100

has_na(r) == isnull(r.arr_time) \/ isnull(r.sched_arr_time) \/ isnull(r.sched_dep_time)

\* (variant) df.dropna() without inplace=True: the table keeps its rows
dropna_not_inplace(rows) == rows

\* df.dropna(inplace=True)
dropna(rows) == SelectSeq(rows, LAMBDA r : ~has_na(r))

InitFlights ==
    /\ cell = 2
    /\ flights \in FlightTables
    /\ failure = "none"
    /\ column = <<>> /\ data_type = "numeric" /\ pc = "ready" /\ error = "none"
    /\ new_column_df = <<>> /\ stdout = <<>> /\ shown = <<>>
    /\ NoRanges /\ NoSelection

cell_dropna ==
    /\ cell = 2
    /\ flights' = dropna(flights)
    /\ cell' = 3
    /\ UNCHANGED <<failure, varsCheck, varsRanges, varsSelect>>

\* int() of a missing value raises, and then no column is added
cell_split_times ==
    /\ cell = 3
    /\ IF \E i \in 1..Len(flights) : has_na(flights[i])
       THEN failure' = "ValueError" /\ flights' = flights
       ELSE /\ failure' = failure
            /\ flights' = [i \in 1..Len(flights) |->
                  [flights[i] EXCEPT !.derived =
                     <<[arr_hour |-> hour(flights[i].arr_time),
                        arr_minute |-> minute(flights[i].arr_time),
                        sched_arr_hour |-> hour(flights[i].sched_arr_time),
                        sched_arr_minute |-> minute(flights[i].sched_arr_time),
                        sched_dep_hour |-> hour(flights[i].sched_dep_time),
                        sched_dep_minute |-> minute(flights[i].sched_dep_time)]>>]]
    /\ cell' = 4
    /\ UNCHANGED <<varsCheck, varsRanges, varsSelect>>

NextFlights == cell_dropna \/ cell_split_times

SpecFlights == InitFlights /\ [][NextFlights]_vars

\* ---------------------------------------------------------------- the feature selection
\* sklearn-feature-selection-shap.ipynb, cells 8 to 12.  Importances are in
\* millionths (0.5 is 500000).
Threshold == 500000
HeadN == 5

\* the importance table the tutorial recorded, in the order of
\* X_train_loo.columns
recorded_importance ==
    {[features |-> "month", importance |-> 1376],
     [features |-> "day", importance |-> 12283],
     [features |-> "carrier", importance |-> 115962],
     [features |-> "origin", importance |-> 1081143],
     [features |-> "dest", importance |-> 86835],
     [features |-> "air_time", importance |-> 27669],
     [features |-> "distance", importance |-> 169818],
     [features |-> "dep_hour", importance |-> 1112755],
     [features |-> "dep_minute", importance |-> 14226],
     [features |-> "arr_hour", importance |-> 2331481],
     [features |-> "arr_minute", importance |-> 57935],
     [features |-> "sched_arr_hour", importance |-> 358844],
     [features |-> "sched_arr_minute", importance |-> 78803],
     [features |-> "sched_dep_hour", importance |-> 747311],
     [features |-> "sched_dep_minute", importance |-> 7768]}

\* other outcomes of the model fit: six features, importances below, at
\* and above the threshold
SomeFeatures == {"origin", "dest", "distance", "dep_hour", "arr_hour", "sched_arr_hour"}
SomeImportances == {100000, 500000, 900000}
ImportanceFrames ==
    {recorded_importance}
        \cup {{[features |-> f, importance |-> imp[f]] : f \in SomeFeatures} :
                 imp \in [SomeFeatures -> SomeImportances]}

\* importance_df.sort_values(by='importance', ascending=False): the rows
\* in descending order; rows of equal importance in any order
RECURSIVE sort_values(_)
sort_values(frame) ==
    IF frame = {} THEN {<<>>}
    ELSE UNION {{<<r>> \o rest : rest \in sort_values(frame \ {r})} :
                  r \in {r \in frame : \A q \in frame : r.importance >= q.importance}}

features_of(rows) == [i \in 1..Len(rows) |-> rows[i].features]

\* importance_df[importance_df.importance > 0.5]['features'].tolist()
above_threshold(rows) == features_of(SelectSeq(rows, LAMBDA r : r.importance > Threshold))

\* importance_df['features'].head(5).tolist()
head(rows) == features_of(SubSeq(rows, 1, IF Len(rows) < HeadN THEN Len(rows) ELSE HeadN))

InitSelect ==
    /\ cell = 7
    /\ flights = <<>> /\ failure = "none"
    /\ NoSelection
    /\ column = <<>> /\ data_type = "numeric" /\ pc = "ready" /\ error = "none"
    /\ new_column_df = <<>> /\ stdout = <<>> /\ shown = <<>>
    /\ NoRanges

cell_importance ==
    /\ cell = 7
    /\ \E frame \in ImportanceFrames : importance_df' \in sort_values(frame)
    /\ cell' = 8
    /\ UNCHANGED <<feature_list, X_train_loo_new, reduced_model>>
    /\ UNCHANGED <<flights, failure, varsCheck, varsRanges>>

cell_feature_list_threshold ==
    /\ cell = 8
    /\ feature_list' = above_threshold(importance_df)
    /\ cell' = 9
    /\ UNCHANGED <<importance_df, X_train_loo_new, reduced_model>>
    /\ UNCHANGED <<flights, failure, varsCheck, varsRanges>>

cell_feature_list_head ==
    /\ cell = 9
    /\ feature_list' = head(importance_df)
    /\ cell' = 10
    /\ UNCHANGED <<importance_df, X_train_loo_new, reduced_model>>
    /\ UNCHANGED <<flights, failure, varsCheck, varsRanges>>

\* X_train_loo_new = X_train_loo[feature_list] (and X_test_loo_new alike)
cell_select_columns ==
    /\ cell = 10
    /\ X_train_loo_new' = feature_list
    /\ cell' = 11
    /\ UNCHANGED <<importance_df, feature_list, reduced_model>>
    /\ UNCHANGED <<flights, failure, varsCheck, varsRanges>>

\* reduced_model.fit(X_train_loo_new, y_train): the features it is fitted on
cell_fit_reduced_model ==
    /\ cell = 11
    /\ reduced_model' = X_train_loo_new
    /\ cell' = 12
    /\ UNCHANGED <<importance_df, feature_list, X_train_loo_new>>
    /\ UNCHANGED <<flights, failure, varsCheck, varsRanges>>

NextSelect ==
    \/ cell_importance
    \/ cell_feature_list_threshold
    \/ cell_feature_list_head
    \/ cell_select_columns
    \/ cell_fit_reduced_model

SpecSelect == InitSelect /\ [][NextSelect]_vars

\* the model reproduces the two lists the tutorial recorded
RecordedLists ==
    /\ (cell = 9 /\ Len(importance_df) = 15 =>
          feature_list = <<"arr_hour", "dep_hour", "origin", "sched_dep_hour">>)
    /\ (cell = 10 /\ Len(importance_df) = 15 =>
          feature_list = <<"arr_hour", "dep_hour", "origin", "sched_dep_hour",
                           "sched_arr_hour">>)

\* ---------------------------------------------------------------- properties
\* the model reproduces what the tutorial recorded for columns B and D
RecordedOutputs ==
    /\ (pc # "ready" /\ column = df.B /\ data_type = "numeric" =>
          stdout = <<[percentage |-> 95, cant_convert |-> 1, total |-> 20]>>)
    /\ (pc # "ready" /\ column = df.D /\ data_type = "datetime" =>
          stdout = <<[percentage |-> 95, cant_convert |-> 1, total |-> 20]>>)
    /\ (pc = "shown" /\ column = df.D /\ data_type = "datetime" =>
          shown = <<[index |-> 2, value |-> IntV(12)]>>)

Returned == pc \in {"returned", "shown"}

\* C1: the recast column has exactly as many rows as the input column and
\* row i of it is the outcome for the input value of row i.
C1_LengthAndOrder ==
    Returned =>
        /\ Len(new_column_df) = Len(column)
        /\ \A i \in 1..Len(column) : new_column_df[i] = coerce_value(column[i], data_type)

C1_Witness ==
    /\ pc = "returned" /\ column = df.B /\ data_type = "numeric"
    /\ Len(new_column_df) = Rows
    /\ isnull(new_column_df[8]) /\ new_column_df[6] = FloatV(22)

\* C2: for a non-empty column the reported percentage is
\* unconvertible_count / total_count * 100 (two decimals, here in
\* hundredths); stated for the case the tutorial recorded, 20 rows with
\* exactly 1 unconvertible row, which report 5.00.
C2_Percentage ==
    Returned /\ stdout[1].total = 20 /\ stdout[1].cant_convert = 1 =>
        /\ stdout[1].percentage
             = (2 * stdout[1].cant_convert * 10000 + stdout[1].total) \div (2 * stdout[1].total)
        /\ stdout[1].percentage = 500

\* C3: a row that was already missing comes back missing, can be told
\* from a row that failed to convert, and is not counted as unconvertible.
C3_NullPreservation ==
    Returned =>
        /\ \A i \in 1..Len(column) : isnull(column[i]) =>
              /\ isnull(new_column_df[i])
              /\ \A j \in 1..Len(column) :
                    ~isnull(column[j]) /\ ~CanConvert(column[j], data_type)
                        => new_column_df[i] # new_column_df[j]
        /\ stdout[1].cant_convert
             = Cardinality({j \in 1..Len(column) :
                              ~isnull(column[j]) /\ ~CanConvert(column[j], data_type)})

\* C4: cast to numeric, a string converts exactly when it is a base-10
\* integer or floating-point literal; ["1", "2.2", "A+B"] gives
\* [1.0, 2.2, NaN], 1 row of 3 unconvertible.
C4_NumericStrings ==
    Returned /\ data_type = "numeric" =>
        /\ \A i \in 1..Len(column) : column[i].tag = "str" =>
              (~isnull(new_column_df[i]) <=> column[i].s \in {s_1, s_neg2, s_2p2})
        /\ (column = <<StrV(s_1), StrV(s_2p2), StrV(s_AplusB)>> =>
              /\ new_column_df = <<FloatV(10), FloatV(22), NaN>>
              /\ stdout[1].cant_convert = 1 /\ stdout[1].total = 3)
        /\ (column = df.B => new_column_df = [df_created.B EXCEPT ![8] = NaN])

C4_Witness ==
    /\ pc = "returned" /\ data_type = "numeric"
    /\ column = <<StrV(s_1), StrV(s_2p2), StrV(s_AplusB)>>
    /\ new_column_df[3] = NaN

\* C5: cast to datetime, a timestamp or an ISO-like date string converts
\* and a bare integer does not; ["2020-01-01", 12] gives
\* [2020-01-01, NaT], 1 row of 2 unconvertible.
C5_DatetimeValues ==
    Returned /\ data_type = "datetime" =>
        /\ \A i \in 1..Len(column) :
              /\ column[i].tag = "ts" => new_column_df[i] = column[i]
              /\ column[i] = StrV(s_date) => new_column_df[i] = TsV(20200101)
              /\ column[i].tag = "int" => isnull(new_column_df[i])
        /\ (column = <<StrV(s_date), IntV(12)>> =>
              /\ new_column_df = <<TsV(20200101), NaN>>
              /\ stdout[1].cant_convert = 1 /\ stdout[1].total = 2)
        /\ (column = df.D => new_column_df = [df_created.D EXCEPT ![3] = NaN])

C5_Witness ==
    /\ pc = "returned" /\ data_type = "datetime"
    /\ column = <<StrV(s_date), IntV(12)>>
    /\ new_column_df[2] = NaN

\* C6: cast to boolean, a native boolean or a boolean literal in any case
\* converts and free text does not; [True, "False", "text"] gives
\* [True, False, NaN], 1 row of 3 unconvertible.
C6_BooleanValues ==
    Returned /\ data_type = "boolean" =>
        /\ \A i \in 1..Len(column) :
              /\ column[i].tag = "bool" => new_column_df[i] = column[i]
              /\ column[i].tag = "str" =>
                    (~isnull(new_column_df[i]) <=> column[i].s \in {s_False, s_True})
        /\ (column = <<BoolV(TRUE), StrV(s_False), StrV(s_text)>> =>
              /\ new_column_df = <<BoolV(TRUE), BoolV(FALSE), NaN>>
              /\ stdout[1].cant_convert = 1 /\ stdout[1].total = 3)

C6_Witness ==
    /\ pc = "returned" /\ data_type = "boolean"
    /\ column = <<BoolV(TRUE), StrV(s_False), StrV(s_text)>>
    /\ new_column_df[2] = BoolV(FALSE)

\* C7: a target type outside the enumeration ("currency") fails with
\* UnsupportedTypeError for every column and leaves no recast column and
\* no summary, not even in part.
C7_UnsupportedType ==
    data_type = "currency" /\ pc # "ready" =>
        /\ pc = "raised"
        /\ error = "UnsupportedTypeError"
        /\ new_column_df = <<>> /\ stdout = <<>> /\ shown = <<>>

C7_Witness ==
    /\ pc = "raised" /\ data_type = "currency"
    /\ column = <<StrV(s_1), StrV(s_AplusB)>>

\* C8: for a recognised target type the call returns normally whatever
\* the column holds, and every row that failed to convert holds NaN.
C8_FailuresAreData ==
    data_type \in TargetType /\ pc # "ready" =>
        /\ Returned
        /\ error = "none"
        /\ Len(stdout) = 1
        /\ \A i \in 1..Len(column) :
              ~isnull(column[i]) /\ ~CanConvert(column[i], data_type)
                  => isnull(new_column_df[i])

C8_Witness ==
    /\ pc = "returned" /\ data_type = "boolean" /\ column = df.C
    /\ error = "none"
    /\ isnull(new_column_df[5]) /\ isnull(new_column_df[10]) /\ isnull(new_column_df[13])

\* C9: when every value of the column is natively of the target type, no
\* row is unconvertible.
NativeOf(v, t) ==
    CASE t = "numeric" -> v.tag \in {"int", "float"}
      [] t = "datetime" -> v.tag = "ts"
      [] t = "boolean" -> v.tag = "bool"
      [] t = "text" -> v.tag = "str"
      [] t = "integer" -> v.tag = "int"
      [] OTHER -> FALSE

C9_HomogeneousInput ==
    Returned /\ (\A i \in 1..Len(column) : NativeOf(column[i], data_type)) =>
        /\ stdout[1].cant_convert = 0
        /\ \A i \in 1..Len(new_column_df) : ~isnull(new_column_df[i])

C9_Witness ==
    /\ pc = "returned" /\ data_type = "numeric" /\ column = df_created.B
    /\ stdout[1].cant_convert = 0 /\ stdout[1].total = Rows

\* C10: the call leaves the source column as it was, on success and on
\* UnsupportedTypeError; no step of the tutorial changes it.
C10_SourceUnchanged == [][column' = column]_vars

C10_Witness ==
    /\ pc = "shown" /\ data_type = "numeric" /\ column = df.B
    /\ shown = <<[index |-> 7, value |-> StrV(s_AplusB)]>>

\* C11: for the empty column and a recognised target type the call
\* returns an empty recast column and a summary whose percentage is the
\* policy value (the sentinel -1 here); nothing is divided by zero and no
\* error is raised.
C11_EmptyColumn ==
    column = <<>> /\ data_type \in TargetType /\ pc # "ready" =>
        /\ Returned /\ error = "none"
        /\ new_column_df = <<>>
        /\ stdout = <<[percentage |-> 0 - 1, cant_convert |-> 0, total |-> 0]>>

C11_Witness ==
    /\ pc = "shown" /\ column = <<>> /\ data_type = "datetime"
    /\ Len(stdout) = 1 /\ stdout[1].total = 0 /\ shown = <<>>

\* C12: checking contiguous row ranges separately, in any order, and
\* concatenating the results in row order gives the recast column of the
\* whole column, and the unconvertible counts of the ranges add up to the
\* count of the whole column.
C12_RangesAgree ==
    merged # <<>> /\ pc = "returned" =>
        /\ merged[1].result = new_column_df
        /\ merged[1].cant_convert = stdout[1].cant_convert

C12_Witness ==
    /\ merged # <<>> /\ pc = "returned" /\ data_type = "datetime"
    /\ column = <<TsV(20200101), IntV(12), StrV(s_date)>>
    /\ ranges[1].hi = 1 /\ ranges[2].lo = 2 /\ ranges[2].hi = 2
    /\ merged[1].result = <<TsV(20200101), NaN, TsV(20200101)>>
    /\ merged[1].cant_convert = 1

\* C15: cast to text, every value that is not missing converts, to its
\* string representation, and no row is unconvertible.
C15_TextAlwaysConverts ==
    Returned /\ data_type = "text" =>
        /\ stdout[1].cant_convert = 0
        /\ \A i \in 1..Len(column) :
              /\ ~isnull(column[i]) => new_column_df[i].tag = "str"
              /\ column[i].tag = "str" => new_column_df[i] = column[i]
              /\ column[i] = IntV(12) => new_column_df[i] = StrV(<<"1", "2">>)
              /\ column[i] = IntV(0 - 2) => new_column_df[i] = StrV(s_neg2)
              /\ column[i] = FloatV(22) => new_column_df[i] = StrV(s_2p2)
              /\ column[i] = BoolV(TRUE) => new_column_df[i] = StrV(s_True)
              /\ column[i] = TsV(20200101) => new_column_df[i] = StrV(s_date \o s_midnight)

C15_Witness ==
    /\ pc = "returned" /\ data_type = "text" /\ column = df.A
    /\ new_column_df[1] = StrV(s_1) /\ new_column_df[2] = StrV(s_neg2)
    /\ new_column_df[3] = StrV(s_text)
    /\ stdout[1].cant_convert = 0

\* C16: cast to numeric, a native boolean converts, true to 1 and false
\* to 0, and is not counted as unconvertible.
C16_BooleansAsNumbers ==
    Returned /\ data_type = "numeric" =>
        /\ \A i \in 1..Len(column) :
              /\ column[i] = BoolV(TRUE) => new_column_df[i] = FloatV(10)
              /\ column[i] = BoolV(FALSE) => new_column_df[i] = FloatV(0)
        /\ ((\A i \in 1..Len(column) : column[i].tag = "bool") => stdout[1].cant_convert = 0)
        /\ (column = df.C => stdout[1].cant_convert = 2)

C16_Witness ==
    /\ pc = "returned" /\ data_type = "numeric" /\ column = df.C
    /\ new_column_df[1] = FloatV(10) /\ new_column_df[2] = FloatV(0)
    /\ isnull(new_column_df[6]) /\ isnull(new_column_df[13])

\* C17: the rows selected by the isnull mask of the recast column are
\* exactly the source rows whose conversion failed, also when the column
\* holds values that were missing before.
C17_MaskIsFailures ==
    pc = "shown" =>
        /\ {shown[k].index + 1 : k \in 1..Len(shown)}
             = {i \in 1..Len(column) : ~isnull(column[i]) /\ ~CanConvert(column[i], data_type)}
        /\ \A k \in 1..Len(shown) : shown[k].value = column[shown[k].index + 1]

\* C19: in every summary total_count is the length of the column,
\* unconvertible_count is the number of rows of the recast column that
\* hold the unconvertible marker (NaN), 0 <= unconvertible_count <=
\* total_count, and the percentage of a non-empty column lies between 0
\* and 100 (in hundredths).
C19_SummaryCounts ==
    Returned =>
        /\ stdout[1].total = Len(column)
        /\ stdout[1].cant_convert
             = Cardinality({i \in 1..Len(new_column_df) : new_column_df[i] = NaN})
        /\ 0 <= stdout[1].cant_convert /\ stdout[1].cant_convert <= stdout[1].total
        /\ (stdout[1].total > 0 =>
              0 <= stdout[1].percentage /\ stdout[1].percentage <= 10000)

\* C20: the split of a clock value x in 0..ClockMax into hour and minute
\* loses nothing (hour * 100 + minute = x) and 0 <= minute <= 99; it runs
\* after the rows with missing values were dropped, so it never meets a
\* missing value.
C20_ClockSplit ==
    cell = 4 =>
        /\ failure = "none"
        /\ \A i \in 1..Len(flights) :
              LET r == flights[i]
                  d == r.derived[1]
              IN /\ Len(r.derived) = 1
                 /\ r.arr_time.tag = "float"
                 /\ (d.arr_hour * 100 + d.arr_minute) * 10 = r.arr_time.n
                 /\ d.sched_arr_hour * 100 + d.sched_arr_minute = r.sched_arr_time.n
                 /\ d.sched_dep_hour * 100 + d.sched_dep_minute = r.sched_dep_time.n
                 /\ {d.arr_minute, d.sched_arr_minute, d.sched_dep_minute} \subseteq 0..99
                 /\ {d.arr_hour, d.sched_arr_hour, d.sched_dep_hour} \subseteq 0..(ClockMax \div 100)

C20_Witness ==
    /\ cell = 4 /\ failure = "none" /\ Len(flights) = 1
    /\ flights[1].arr_time = FloatV(23590)
    /\ flights[1].derived[1].arr_hour = 23 /\ flights[1].derived[1].arr_minute = 59
    /\ flights[1].derived[1].sched_arr_hour = 23
    /\ flights[1].derived[1].sched_dep_minute = 41

\* C18: with the cells run in order, the features the columns are
\* selected by and the reduced model is fitted on are exactly the
\* features whose importance is greater than 0.5.
C18_RetrainedOnThreshold ==
    cell \in {11, 12} =>
        /\ {X_train_loo_new[i] : i \in 1..Len(X_train_loo_new)}
             = {importance_df[i].features :
                  i \in {j \in 1..Len(importance_df) : importance_df[j].importance > Threshold}}
        /\ (cell = 12 => reduced_model = X_train_loo_new)

====
